---- MODULE Spec2Model ----
(***************************************************************************)
(* ModelPredictor (stock_prediction/models/model_predictor.py): the        *)
(* prediction pipeline that labels each row of a symbol's feature table    *)
(* from its predicted probability (evaluate_model) and then suppresses     *)
(* minima / maxima that follow an accepted signal of the same kind too     *)
(* closely (filter_predictions).                                           *)
(*                                                                         *)
(* Probabilities and thresholds are reals in the program; here the integer *)
(* k stands for the real k / PScale, so [0,1] is 0..PScale.  The rows the  *)
(* model handles are the rows with complete indicators: evaluate_model     *)
(* drops the others before labelling and again after the merge.            *)
(* Row indices are pandas' 0-based positions after reset_index; the row    *)
(* with index idx is element idx + 1 of the sequence.                      *)
(***************************************************************************)
EXTENDS Integers, Sequences, FiniteSets

VARIABLES
    min_threshold,      \* self.min_threshold
    max_threshold,      \* self.max_threshold
    window_size,        \* self.window_size
    table,              \* the symbol's feature table, with the classifier's probability per row
    df,                 \* df_predictions: the frame returned by the last call
    raw,                \* the frame handed to the most recent filter_predictions call
    last_minima_idx,    \* local of filter_predictions, as the last run left it
    last_maxima_idx,    \* local of filter_predictions, as the last run left it
    pc                  \* "constructed", "evaluated", "filtered", "refiltered"

vars == <<min_threshold, max_threshold, window_size, table, df, raw,
          last_minima_idx, last_maxima_idx, pc>>

\* ------------------------------------------------------------------ bounds

\* probabilities are the reals k / PScale, k in 0..PScale
PScale == 2
\* longest feature table
MaxLen == 3
\* largest window_size
MaxWindow == 2

Probabilities == 0..PScale
\* thresholds are not validated: the grid reaches outside [0,1]
Thresholds == (-1)..(PScale + 1)
\* window_size is not validated: zero and a negative value are included
WindowSizes == (-1)..MaxWindow

Range(s) == {s[i] : i \in 1..Len(s)}

\* The data source delivers a series oldest-first or newest-first; the dates
\* of a symbol are unique.
Ascending(n) == [i \in 1..n |-> i]
Descending(n) == [i \in 1..n |-> n + 1 - i]

Tables ==
    UNION {{[i \in 1..n |-> [date |-> d[i], proba |-> p[i]]] :
                p \in [1..n -> Probabilities], d \in {Ascending(n), Descending(n)}} :
           n \in 1..MaxLen}

\* ---------------------------------------------------------- evaluate_model

\* y_pred starts at -1, is set to 0 where the probability is below
\* min_threshold, and is then set to 1 where it is above max_threshold.
y_pred(p) ==
    LET y0 == -1
        y1 == IF p < min_threshold THEN 0 ELSE y0
        y2 == IF p > max_threshold THEN 1 ELSE y1
    IN  y2

evaluate_model(tab) ==
    [i \in 1..Len(tab) |->
        [date |-> tab[i].date,
         predicted_probability |-> tab[i].proba,
         predicted_target |-> y_pred(tab[i].proba)]]

\* ------------------------------------------------------ filter_predictions

\* df.sort_values(by='date').reset_index(drop=True), dates unique
sort_values(frame) ==
    [k \in 1..Len(frame) |->
        CHOOSE r \in Range(frame) :
            Cardinality({q \in Range(frame) : q.date < r.date}) = k - 1]

\* variant: the sentinel one row too close to the start
OffByOneMinimaIdx == -window_size

\* variant: the index kept across runs instead of reset at the start of each
StaleMinimaIdx ==
    IF pc \in {"filtered", "refiltered"} THEN last_minima_idx ELSE -window_size - 1

\* last_minima_idx = -self.window_size - 1
InitialMinimaIdx == -window_size - 1

\* last_maxima_idx = -self.window_size - 1
InitialMaximaIdx == -window_size - 1

\* variant: >= in place of >
SpacedEnoughNonStrict(idx, last_idx) == idx - last_idx >= window_size

\* idx - last_minima_idx > self.window_size (and the same for maxima)
SpacedEnough(idx, last_idx) == idx - last_idx > window_size

\* variant: the suppressed row is written 1 instead of -1
SetNeutralWrong(frame, idx) == [frame EXCEPT ![idx + 1].predicted_target = 1]

\* df.at[idx, 'predicted_target'] = -1
SetNeutral(frame, idx) == [frame EXCEPT ![idx + 1].predicted_target = -1]

\* variant: the loop body with one index shared by both kinds
FilterRowSharedIdx(st, idx) ==
    LET row == st.df[idx + 1]
    IN  IF row.predicted_target \in {0, 1}
        THEN IF SpacedEnough(idx, st.last_minima_idx)
             THEN [st EXCEPT !.last_minima_idx = idx]
             ELSE [st EXCEPT !.df = SetNeutral(st.df, idx)]
        ELSE st

\* one iteration of the loop: st holds the frame and the two running indices
FilterRow(st, idx) ==
    LET row == st.df[idx + 1]
    IN  IF row.predicted_target = 0
        THEN IF SpacedEnough(idx, st.last_minima_idx)
             THEN [st EXCEPT !.last_minima_idx = idx]
             ELSE [st EXCEPT !.df = SetNeutral(st.df, idx)]
        ELSE IF row.predicted_target = 1
        THEN IF SpacedEnough(idx, st.last_maxima_idx)
             THEN [st EXCEPT !.last_maxima_idx = idx]
             ELSE [st EXCEPT !.df = SetNeutral(st.df, idx)]
        ELSE st

RECURSIVE iterrows(_, _)
iterrows(st, idx) ==
    IF idx >= Len(st.df) THEN st ELSE iterrows(FilterRow(st, idx), idx + 1)

\* the whole call: the sorted frame, the fresh indices, the loop
filter_run(frame) ==
    iterrows([df |-> sort_values(frame),
              last_minima_idx |-> InitialMinimaIdx,
              last_maxima_idx |-> InitialMaximaIdx], 0)

filter_predictions(frame) == filter_run(frame).df

\* ------------------------------------------------------------------ state

\* After __init__: the parameters are stored as given.  The two locals of
\* filter_predictions have no value before the first run; 0 stands for that
\* and is never read.
Init ==
    /\ min_threshold \in Thresholds
    /\ max_threshold \in Thresholds
    /\ window_size \in WindowSizes
    /\ table \in Tables
    /\ df = <<>>
    /\ raw = <<>>
    /\ last_minima_idx = 0
    /\ last_maxima_idx = 0
    /\ pc = "constructed"

\* predictor.evaluate_model(df_new_stock)
CallEvaluateModel ==
    /\ pc = "constructed"
    /\ df' = evaluate_model(table)
    /\ pc' = "evaluated"
    /\ UNCHANGED <<min_threshold, max_threshold, window_size, table, raw,
                   last_minima_idx, last_maxima_idx>>

\* predictor.filter_predictions(df_predictions), on a labelled frame or on the
\* output of an earlier run
CallFilterPredictions ==
    /\ pc \in {"evaluated", "filtered", "refiltered"}
    /\ LET run == filter_run(df)
       IN  /\ raw' = df
           /\ df' = run.df
           /\ last_minima_idx' = run.last_minima_idx
           /\ last_maxima_idx' = run.last_maxima_idx
    /\ pc' = IF pc = "evaluated" THEN "filtered" ELSE "refiltered"
    /\ UNCHANGED <<min_threshold, max_threshold, window_size, table>>

\* the body of test()'s loop for one symbol: evaluate, then filter
test ==
    /\ pc = "constructed"
    /\ LET run == filter_run(evaluate_model(table))
       IN  /\ raw' = evaluate_model(table)
           /\ df' = run.df
           /\ last_minima_idx' = run.last_minima_idx
           /\ last_maxima_idx' = run.last_maxima_idx
    /\ pc' = "filtered"
    /\ UNCHANGED <<min_threshold, max_threshold, window_size, table>>

Next == CallEvaluateModel \/ CallFilterPredictions \/ test

Spec == Init /\ [][Next]_vars

\* ------------------------------------------------------------- properties

Kinds == {0, 1}

Filtered == pc \in {"filtered", "refiltered"}

\* row indices of the output frame
Idx == 0..(Len(df) - 1)

\* label of output row i
Out(i) == df[i + 1].predicted_target

\* the input row of the last run that carries output row i's date
RawRow(i) == CHOOSE r \in Range(raw) : r.date = df[i + 1].date

\* raw label of the row that the run placed at index i
In(i) == RawRow(i).predicted_target

DateSorted(frame) == \A i, j \in 1..Len(frame) : i < j => frame[i].date < frame[j].date

LabelsOf(frame) == [i \in 1..Len(frame) |-> frame[i].predicted_target]

\* no row strictly between i and j keeps kind k
NoneKeptBetween(k, i, j) == \A m \in Idx : (i < m /\ m < j) => Out(m) # k

ValidConfig ==
    /\ 0 <= min_threshold
    /\ min_threshold <= max_threshold
    /\ max_threshold <= PScale
    /\ window_size > 0

\* C1: in the output of filter_predictions, two consecutive rows that keep a
\* label of the same kind have indices more than window_size apart.
C1_SpacingInvariant ==
    Filtered =>
        \A k \in Kinds : \A i, j \in Idx :
            (i < j /\ Out(i) = k /\ Out(j) = k /\ NoneKeptBetween(k, i, j))
                => j - i > window_size

\* a run that suppressed a candidate and kept two others of its kind
C1_Witness ==
    /\ Filtered
    /\ window_size >= 1
    /\ \E k \in Kinds : \E i, j, m \in Idx :
          /\ i < m /\ m < j
          /\ Out(i) = k /\ Out(j) = k
          /\ In(m) = k /\ Out(m) = -1

\* C2: evaluate_model labels a row minimum iff p < min_threshold, maximum iff
\* p > max_threshold, and neutral otherwise, for every configured pair of
\* thresholds.
C2_ThresholdCorrectness ==
    pc = "evaluated" =>
        \A i \in 1..Len(df) :
            LET p == df[i].predicted_probability
                y == df[i].predicted_target
            IN  /\ y = 0 <=> p < min_threshold
                /\ y = 1 <=> p > max_threshold
                /\ y = -1 <=> (~(p < min_threshold) /\ ~(p > max_threshold))

\* a labelled frame on which the thresholds are inverted and a row falls
\* below min_threshold and above max_threshold at once
C2_Ambiguous ==
    /\ pc = "evaluated"
    /\ min_threshold > max_threshold
    /\ \E i \in 1..Len(df) :
          /\ df[i].predicted_probability < min_threshold
          /\ df[i].predicted_probability > max_threshold

\* raw candidates of kind k lying pairwise within window_size rows
Close(S, k) ==
    /\ \A i \in S : In(i) = k
    /\ \A i, j \in S : j - i <= window_size

\* a cluster: at least two close candidates, and no further candidate of the
\* kind is close to all of them
Cluster(S, k) ==
    /\ Cardinality(S) >= 2
    /\ Close(S, k)
    /\ \A t \in Idx \ S : ~Close(S \cup {t}, k)

First(S) == CHOOSE i \in S : \A j \in S : i <= j

\* no row before i that keeps kind k lies within window_size rows of i
ClearBefore(k, i) == \A j \in Idx : (j < i /\ Out(j) = k) => i - j > window_size

\* the frame with every probability replaced by 0
ZeroProbability(frame) ==
    [i \in 1..Len(frame) |-> [frame[i] EXCEPT !.predicted_probability = 0]]

\* C3 as stated: of every cluster of raw candidates of one kind, the first
\* is accepted and all later ones are downgraded (under a valid configuration).
C3_FirstWinsEveryCluster ==
    (Filtered /\ ValidConfig) =>
        \A k \in Kinds : \A S \in SUBSET Idx :
            Cluster(S, k) =>
                /\ Out(First(S)) = k
                /\ \A i \in S \ {First(S)} : Out(i) = -1

\* C3 (amended): of a cluster of raw candidates of one kind whose first member
\* lies more than window_size rows after every earlier accepted signal of the
\* kind, the first is accepted and all later ones are downgraded; and the
\* output labels do not depend on the probabilities.
C3_FirstWins ==
    Filtered =>
        /\ \A k \in Kinds : \A S \in SUBSET Idx :
              (Cluster(S, k) /\ ClearBefore(k, First(S))) =>
                  /\ Out(First(S)) = k
                  /\ \A i \in S \ {First(S)} : Out(i) = -1
        /\ LabelsOf(filter_predictions(ZeroProbability(raw))) = LabelsOf(df)

\* a cluster whose later member has the probability further from neutral
C3_Witness ==
    /\ Filtered
    /\ \E S \in SUBSET Idx :
          /\ Cluster(S, 0)
          /\ ClearBefore(0, First(S))
          /\ \E i \in S : RawRow(i).predicted_probability
                              < RawRow(First(S)).predicted_probability

\* C4: a run of filter_predictions on the output of filter_predictions returns
\* that output unchanged.
C4_Idempotent == pc = "refiltered" => df = raw

\* a second run on an output that holds two kept minima and a kept maximum
C4_Witness ==
    /\ pc = "refiltered"
    /\ window_size >= 1
    /\ \E i, j, m \in Idx :
          /\ i < m /\ m < j
          /\ Out(i) = 0 /\ Out(m) = 1 /\ Out(j) = 0

\* the frame with every signal that is not of kind k made neutral
OnlyKind(frame, k) ==
    [i \in 1..Len(frame) |->
        IF frame[i].predicted_target = k
        THEN frame[i]
        ELSE [frame[i] EXCEPT !.predicted_target = -1]]

KeptOf(frame, k) == {i \in 1..Len(frame) : frame[i].predicted_target = k}

\* C5: which candidates of a kind are kept is decided by the positions of the
\* candidates of that kind alone: the run keeps the same ones as a run on the
\* frame from which the other kind is removed (so any two frames with the
\* same candidates of a kind keep the same ones).
C5_KindIndependence ==
    Filtered =>
        \A k \in Kinds : KeptOf(filter_predictions(OnlyKind(raw, k)), k) = KeptOf(df, k)

\* a kept maximum lying within window_size rows before a kept minimum
C5_Witness ==
    /\ Filtered
    /\ window_size >= 1
    /\ \E i, j \in Idx :
          /\ i < j /\ j - i <= window_size
          /\ Out(i) = 1 /\ Out(j) = 0

\* C6: an invalid configuration is rejected at construction: no frame is ever
\* labelled under it.
C6_InvalidConfigRejected == ~ValidConfig => (pc = "constructed" /\ df = <<>>)

\* C7 as stated: the second of two raw signals of one kind that lie exactly
\* window_size rows apart is suppressed (under a valid configuration).
C7_ExactGapSuppressed ==
    (Filtered /\ ValidConfig) =>
        \A k \in Kinds : \A i, j \in Idx :
            (i < j /\ In(i) = k /\ In(j) = k /\ j - i = window_size) => Out(j) = -1

\* C7 (amended): a raw signal whose nearest earlier accepted signal of its
\* kind lies exactly window_size rows before it is suppressed; it is accepted
\* exactly when that signal lies window_size + 1 or more rows before it.
C7_Boundary ==
    Filtered =>
        \A k \in Kinds : \A i, j \in Idx :
            (i < j /\ Out(i) = k /\ In(j) = k /\ NoneKeptBetween(k, i, j)) =>
                /\ j - i = window_size => Out(j) = -1
                /\ Out(j) = k <=> j - i >= window_size + 1

\* one run with a signal suppressed at a gap of exactly window_size and one
\* accepted at a gap of exactly window_size + 1
C7_Witness ==
    /\ Filtered
    /\ window_size >= 1
    /\ \E k \in Kinds : \E i, j, m \in Idx :
          /\ Out(i) = k
          /\ In(j) = k /\ j - i = window_size /\ Out(j) = -1
          /\ m - i = window_size + 1 /\ Out(m) = k

\* C8: with window_size = 0 every raw signal is accepted: the output labels
\* are the input labels row for row (a date-sorted input is returned as is).
C8_ZeroWindowKeepsAll ==
    (Filtered /\ window_size = 0) =>
        /\ \A i \in Idx : Out(i) = In(i)
        /\ DateSorted(raw) => df = raw

\* adjacent signals of one kind, both kept, with window_size = 0
C8_Witness ==
    /\ Filtered
    /\ window_size = 0
    /\ \E k \in Kinds : \E i \in Idx : i + 1 \in Idx /\ Out(i) = k /\ Out(i + 1) = k

\* the index a candidate at row i of kind k is compared with: the nearest
\* earlier row that keeps the kind, or the sentinel when there is none
LastKept(k, i) ==
    LET earlier == {j \in Idx : j < i /\ Out(j) = k}
    IN  IF earlier = {} THEN -window_size - 1
        ELSE CHOOSE j \in earlier : \A m \in earlier : m <= j

\* C9: in every run a raw signal at row i keeps its label iff i minus the
\* index of the most recently kept signal of its kind in that run (the
\* sentinel -window_size - 1 when there is none) exceeds window_size; the
\* first raw candidate of each kind is always accepted.
C9_AcceptanceRule ==
    Filtered =>
        \A k \in Kinds : \A i \in Idx :
            In(i) = k =>
                /\ Out(i) = k <=> i - LastKept(k, i) > window_size
                /\ (\A j \in Idx : j < i => In(j) # k) => Out(i) = k

\* a later run whose first candidate is row 0 and whose frame holds a later
\* kept signal of the same kind
C9_Witness ==
    /\ pc = "refiltered"
    /\ window_size >= 1
    /\ \E k \in Kinds : \E j \in Idx : In(0) = k /\ Out(0) = k /\ j > 0 /\ Out(j) = k

\* C10: the run returns as many rows as it receives, each row of the input
\* once, with date and probability untouched; a label is kept or downgraded
\* from minimum / maximum to neutral, and is one of -1, 0, 1.
C10_Frame ==
    Filtered =>
        /\ Len(df) = Len(raw)
        /\ \A r \in Range(raw) : Cardinality({i \in Idx : df[i + 1].date = r.date}) = 1
        /\ \A i \in Idx :
              /\ \E r \in Range(raw) : r.date = df[i + 1].date
              /\ df[i + 1].predicted_probability = RawRow(i).predicted_probability
              /\ Out(i) \in {-1, 0, 1}
              /\ Out(i) = In(i) \/ (In(i) \in Kinds /\ Out(i) = -1)
        /\ DateSorted(raw) =>
              \A i \in 1..Len(df) :
                  [df[i] EXCEPT !.predicted_target = 0] = [raw[i] EXCEPT !.predicted_target = 0]

\* a run on a frame delivered newest-first that downgraded a row and left a
\* neutral row and a signal as they were
C10_Witness ==
    /\ pc = "filtered"
    /\ ~DateSorted(raw)
    /\ \E i, j, m \in Idx :
          /\ In(i) = -1 /\ Out(i) = -1
          /\ In(j) \in Kinds /\ Out(j) = -1
          /\ In(m) \in Kinds /\ Out(m) = In(m)

====
